---------------------------- MODULE Spec2Model ----------------------------
(***************************************************************************)
(* A model of pageviews.js (src/index.js): the parameter validator         *)
(* _checkParams, the result mapper _checkResult, and the four public       *)
(* operations with their request callbacks.                                *)
(*                                                                         *)
(* JavaScript values are tagged records:                                   *)
(*   [t |-> "undefined"]             undefined (an absent property)        *)
(*   [t |-> "string", s |-> <<..>>]  a caller's string, as a sequence of   *)
(*                                   one-character strings                 *)
(*   [t |-> "number", n |-> k]       the number k/10 (fixed point, one     *)
(*                                   decimal digit)                        *)
(*   [t |-> "NaN"]                   the number NaN                        *)
(*   [t |-> "null"], [t |-> "bool", b |-> ..], [t |-> "str", s |-> ".."]   *)
(*   [t |-> "arr", a |-> <<..>>], [t |-> "obj", f |-> [name |-> value]]    *)
(*                                   the values JSON.parse returns (a JSON *)
(*                                   string is an atomic TLA+ string)      *)
(*   [t |-> "error", name, message]  an Error object                       *)
(***************************************************************************)
EXTENDS Integers, Sequences, FiniteSets, TLC

VARIABLES
    argument,   \* the argument the caller passes to the operation
    params,     \* the operation's variable params once it holds what
                \* _checkParams returned
    pc,         \* "idle" | "rejected" | "requesting" | "completed"
    caller,     \* the operation that was called ("" before the call)
    url,        \* options.url of the request issued (<<>> when none)
    requests,   \* how many HTTP requests the call has issued
    limit,      \* getTopPageviews' closure variable limit
    promise,    \* [state |-> "pending" | "fulfilled" | "rejected", value |-> ..]
    settles,    \* how many times resolve or reject has been called
    outcome,    \* the (error, response, body) handed to the request callback
    uncaught    \* the exception that escaped the request callback, if any

vars == <<argument, params, pc, caller, url, requests, limit, promise, settles, outcome, uncaught>>

---------------------------------------------------------------------------
(* JavaScript values *)

Undefined == [t |-> "undefined"]
Null == [t |-> "null"]
NaN == [t |-> "NaN"]
False == [t |-> "bool", b |-> FALSE]
Str(s) == [t |-> "string", s |-> s]
Num(k) == [t |-> "number", n |-> k]
JStr(s) == [t |-> "str", s |-> s]
Arr(a) == [t |-> "arr", a |-> a]
Obj(f) == [t |-> "obj", f |-> f]
EmptyObject == Obj([k \in {} |-> Undefined])

\* new Error(message): message is the string form of the argument,
\* "" when the argument is undefined.
NewError(name, message) == [t |-> "error", name |-> name, message |-> message]

\* ToBoolean
Truthy(v) ==
    CASE v.t = "undefined" -> FALSE
      [] v.t = "null" -> FALSE
      [] v.t = "NaN" -> FALSE
      [] v.t = "bool" -> v.b
      [] v.t = "string" -> v.s # <<>>
      [] v.t = "str" -> v.s # ""
      [] v.t = "number" -> v.n # 0
      [] OTHER -> TRUE

\* v.k for a value v that is neither undefined nor null: an own property of
\* an object, the stack and message of an Error, undefined otherwise.
Get(v, k) ==
    CASE v.t = "obj" -> IF k \in DOMAIN v.f THEN v.f[k] ELSE Undefined
      [] v.t = "error" ->
            IF k = "stack" THEN JStr(v.name \o ": " \o v.message \o "\n    at ...")
            ELSE IF k = "message" THEN JStr(v.message)
            ELSE Undefined
      [] OTHER -> Undefined

\* Reading a property of undefined or null throws a TypeError.
Throws(v) == v.t \in {"undefined", "null"}

---------------------------------------------------------------------------
(* Strings as character sequences *)

Digit == {"0", "1", "2", "3", "4", "5", "6", "7", "8", "9"}
DigitChars == <<"0", "1", "2", "3", "4", "5", "6", "7", "8", "9">>
DigitVal(c) == (CHOOSE i \in 1..Len(DigitChars) : DigitChars[i] = c) - 1

\* String.prototype.indexOf(c): the 0-based index of the first c, or -1.
IndexOf(s, c) ==
    IF \E i \in 1..Len(s) : s[i] = c
    THEN (CHOOSE i \in 1..Len(s) : s[i] = c /\ \A j \in 1..(i - 1) : s[j] # c) - 1
    ELSE -1

AllDigits(s) == \A i \in 1..Len(s) : s[i] \in Digit

RECURSIVE DigitsToInt(_)
DigitsToInt(s) ==
    IF s = <<>> THEN 0
    ELSE 10 * DigitsToInt(SubSeq(s, 1, Len(s) - 1)) + DigitVal(s[Len(s)])

RECURSIVE IntToDigits(_)
IntToDigits(k) ==
    IF k < 10 THEN <<DigitChars[k + 1]>>
    ELSE IntToDigits(k \div 10) \o <<DigitChars[(k % 10) + 1]>>

RECURSIVE Pow10(_)
Pow10(e) == IF e = 0 THEN 1 ELSE 10 * Pow10(e - 1)

RECURSIVE Trim(_)
Trim(s) ==
    IF s = <<>> THEN s
    ELSE IF Head(s) = " " THEN Trim(Tail(s))
    ELSE IF s[Len(s)] = " " THEN Trim(SubSeq(s, 1, Len(s) - 1))
    ELSE s

\* ToNumber of a string holding a decimal literal with at most one
\* fractional digit, [ws][+-]digits[.digit][e digits][ws]: "" is 0, a text
\* that is no such literal is NaN.  The literal is taken apart in steps:
\* integer part ip, fraction fp, exponent ex.
NumberValue(ip, fp, ex) ==
    IF /\ AllDigits(ip) /\ AllDigits(fp) /\ Len(fp) <= 1
       /\ (ip # <<>> \/ fp # <<>>)
       /\ ex # <<>> /\ AllDigits(ex)
    THEN Num((10 * DigitsToInt(ip) + DigitsToInt(fp)) * Pow10(DigitsToInt(ex)))
    ELSE NaN

SplitFraction(mant, ex, dot) ==
    IF dot = -1 THEN NumberValue(mant, <<>>, ex)
    ELSE NumberValue(SubSeq(mant, 1, dot), SubSeq(mant, dot + 2, Len(mant)), ex)

SplitExponent(u, epos) ==
    IF epos = -1 THEN SplitFraction(u, <<"0">>, IndexOf(u, "."))
    ELSE SplitFraction(SubSeq(u, 1, epos), SubSeq(u, epos + 2, Len(u)),
                       IndexOf(SubSeq(u, 1, epos), "."))

UnsignedNumber(u) ==
    SplitExponent(u, IF IndexOf(u, "e") # -1 THEN IndexOf(u, "e") ELSE IndexOf(u, "E"))

Negate(x) == IF x.t = "number" THEN Num(0 - x.n) ELSE x

SignedNumber(t) ==
    IF t = <<>> THEN Num(0)
    ELSE IF Head(t) = "-" THEN Negate(UnsignedNumber(Tail(t)))
    ELSE IF Head(t) = "+" THEN UnsignedNumber(Tail(t))
    ELSE UnsignedNumber(t)

StringToNumber(s) == SignedNumber(Trim(s))

\* ToNumber
ToNumber(v) ==
    CASE v.t = "number" -> v
      [] v.t = "string" -> StringToNumber(v.s)
      [] v.t = "null" -> Num(0)
      [] v.t = "bool" -> IF v.b THEN Num(10) ELSE Num(0)
      [] OTHER -> NaN

\* Number.prototype.toString for k/10
NumberToString(k) ==
    LET a == IF k < 0 THEN 0 - k ELSE k
        body == IntToDigits(a \div 10) \o
                (IF a % 10 = 0 THEN <<>> ELSE <<".", DigitChars[(a % 10) + 1]>>)
    IN  IF k < 0 THEN <<"-">> \o body ELSE body

\* ToString, for the values a caller passes
ToStr(v) ==
    CASE v.t = "string" -> v.s
      [] v.t = "number" -> NumberToString(v.n)
      [] v.t = "NaN" -> <<"N", "a", "N">>
      [] v.t = "undefined" -> <<"u", "n", "d", "e", "f", "i", "n", "e", "d">>

\* a < b for numbers (false when either is NaN)
Less(a, b) == a.t = "number" /\ b.t = "number" /\ a.n < b.n
LessEq(a, b) == a.t = "number" /\ b.t = "number" /\ a.n <= b.n

---------------------------------------------------------------------------
(* Regular expressions: an anchored pattern ^p1 p2 .. pn$ is the sequence  *)
(* of its pieces, each piece the set of strings it matches.                *)

HasAt(s, i, alt) ==
    /\ i + Len(alt) - 1 <= Len(s)
    /\ \A j \in 1..Len(alt) : s[i + j - 1] = alt[j]

RECURSIVE MatchFrom(_, _, _, _)
MatchFrom(s, i, re, k) ==
    IF k > Len(re) THEN i = Len(s) + 1
    ELSE \E alt \in re[k] : HasAt(s, i, alt) /\ MatchFrom(s, i + Len(alt), re, k + 1)

\* RegExp.prototype.test(v): v is converted to a string first.
Test(re, v) == MatchFrom(ToStr(v), 1, re, 1)

ReDigit == {<<d>> : d \in Digit}                                   \* \d
ReCentury == {<<"1", "9">>, <<"2", "0">>}                          \* (?:19|20)
ReSep == {<<>>, <<"-">>, <<" ">>, <<"/">>, <<".">>}                \* [- /.]?
\* ReMonth with 1[012] widened to 1[0-9].
ReMonthWide == {<<"0", d>> : d \in Digit \ {"0"}} \cup {<<"1", d>> : d \in Digit}
ReMonth == {<<"0", d>> : d \in Digit \ {"0"}} \cup
           {<<"1", d>> : d \in {"0", "1", "2"}}                    \* (?:0[1-9]|1[012])
ReDay == {<<"0", d>> : d \in Digit \ {"0"}} \cup
         {<<c, d>> : c \in {"1", "2"}, d \in Digit} \cup
         {<<"3", d>> : d \in {"0", "1"}}                           \* (?:0[1-9]|[12][0-9]|3[01])
ReHour == {<<c, d>> : c \in {"0", "1", "2"}, d \in Digit}          \* (?:[012][0-9])

ReStartDay == <<ReCentury, ReDigit, ReDigit, ReSep, ReMonth, ReSep, ReDay>>
ReEndDay == <<ReCentury, ReDigit, ReDigit, ReSep, ReMonth, ReSep, ReDay>>
ReStartHour == <<ReCentury, ReDigit, ReDigit, ReSep, ReMonth, ReSep, ReDay, ReSep, ReHour>>
ReEndHour == <<ReCentury, ReDigit, ReDigit, ReSep, ReMonth, ReSep, ReDay, ReSep, ReHour>>
ReYear == <<ReCentury, ReDigit, ReDigit>>
ReMonthOnly == <<ReMonth>>
ReDayOnly == <<ReDay>>

\* /^\d+$/.test(v)
TestDigits(v) == ToStr(v) # <<>> /\ AllDigits(ToStr(v))

---------------------------------------------------------------------------
(* Module constants of src/index.js *)

BASE_URL == <<"h", "t", "t", "p", "s", ":", "/", "/", "w", "i", "k", "i", "m", "e", "d", "i", "a", ".", "o", "r", "g", "/", "a", "p", "i", "/", "r", "e", "s", "t", "_", "v", "1">>

AccessDefault == <<"a", "l", "l", "-", "a", "c", "c", "e", "s", "s">>
AccessAllowed == {<<"a", "l", "l", "-", "a", "c", "c", "e", "s", "s">>,
                  <<"d", "e", "s", "k", "t", "o", "p">>,
                  <<"m", "o", "b", "i", "l", "e", "-", "w", "e", "b">>,
                  <<"m", "o", "b", "i", "l", "e", "-", "a", "p", "p">>}
AgentDefault == <<"a", "l", "l", "-", "a", "g", "e", "n", "t", "s">>
AgentAllowed == {<<"a", "l", "l", "-", "a", "g", "e", "n", "t", "s">>,
                 <<"u", "s", "e", "r">>,
                 <<"s", "p", "i", "d", "e", "r">>,
                 <<"b", "o", "t">>}
GranularityDefault == <<"d", "a", "i", "l", "y">>
GranularityAllowed == {<<"d", "a", "i", "l", "y">>}

\* allowed.indexOf(v) === -1: strict equality, so only a string can be found
NotAllowed(allowed, v) == ~(v.t = "string" /\ v.s \in allowed)

PathDimensions == <<"/", "m", "e", "t", "r", "i", "c", "s", "/", "p", "a", "g", "e", "v", "i", "e", "w", "s", "/">>
PathPerArticle == <<"/", "m", "e", "t", "r", "i", "c", "s", "/", "p", "a", "g", "e", "v", "i", "e", "w", "s", "/", "p", "e", "r", "-", "a", "r", "t", "i", "c", "l", "e">>
PathAggregate == <<"/", "m", "e", "t", "r", "i", "c", "s", "/", "p", "a", "g", "e", "v", "i", "e", "w", "s", "/", "a", "g", "g", "r", "e", "g", "a", "t", "e">>
PathTop == <<"/", "m", "e", "t", "r", "i", "c", "s", "/", "p", "a", "g", "e", "v", "i", "e", "w", "s", "/", "t", "o", "p">>

---------------------------------------------------------------------------
(* _checkParams *)

ErrParamsMissing == NewError("Error", "Required parameters missing.")
ErrProject == NewError("Error", "Required parameter \"project\" missing or invalid.")
ErrArticle == NewError("Error", "Required parameter \"article\" missing.")
ErrStart == NewError("Error", "Required parameter \"start\" missing or invalid.")
ErrEnd == NewError("Error", "Required parameter \"end\" missing or invalid.")
ErrYear == NewError("Error", "Required parameter \"year\" missing or invalid.")
ErrMonth == NewError("Error", "Required parameter \"month\" missing or invalid.")
ErrDay == NewError("Error", "Required parameter \"day\" missing or invalid.")
ErrLimit == NewError("Error", "Invalid optional parameter \"limit\".")
ErrAccess == NewError("Error", "Invalid optional parameter \"access\".")
ErrAgent == NewError("Error", "Invalid optional parameter \"agent\".")
ErrGranularity == NewError("Error", "Invalid optional parameter \"granularity\".")

\* ProjectInvalid without its indexOf test.
ProjectInvalidNoDotTest(p) == ~Truthy(Get(p, "project"))

\* (!params.project) || (params.project.indexOf('.') === -1)
ProjectInvalid(p) ==
    ~Truthy(Get(p, "project")) \/ IndexOf(Get(p, "project").s, ".") = -1

\* (!params.x) || (!re.test(params.x))
FieldInvalid(p, x, re) == ~Truthy(Get(p, x)) \/ ~Test(re, Get(p, x))

\* LimitInvalid rejecting whatever is not a digit string in 1..1000.
LimitInvalidOutOfRange(p) ==
    /\ Truthy(Get(p, "limit"))
    /\ \/ ~TestDigits(Get(p, "limit"))
       \/ ~Less(Num(0), ToNumber(Get(p, "limit")))
       \/ ~LessEq(ToNumber(Get(p, "limit")), Num(10000))

\* (params.limit) && !/^\d+$/.test(params.limit) &&
\*     (0 < params.limit) && (params.limit <= 1000)
LimitInvalid(p) ==
    /\ Truthy(Get(p, "limit"))
    /\ ~TestDigits(Get(p, "limit"))
    /\ Less(Num(0), ToNumber(Get(p, "limit")))
    /\ LessEq(ToNumber(Get(p, "limit")), Num(10000))

\* (params.x) && (allowed.indexOf(params.x) === -1)
OptionInvalid(p, x, allowed) == Truthy(Get(p, x)) /\ NotAllowed(allowed, Get(p, x))

\* CheckOptional with the agent check ahead of the access check.
CheckOptionalAgentFirst(p) ==
    IF OptionInvalid(p, "agent", AgentAllowed) THEN ErrAgent
    ELSE IF OptionInvalid(p, "access", AccessAllowed) THEN ErrAccess
    ELSE IF OptionInvalid(p, "granularity", GranularityAllowed) THEN ErrGranularity
    ELSE p

\* The three optional checks that end _checkParams, and its return params.
CheckOptional(p) ==
    IF OptionInvalid(p, "access", AccessAllowed) THEN ErrAccess
    ELSE IF OptionInvalid(p, "agent", AgentAllowed) THEN ErrAgent
    ELSE IF OptionInvalid(p, "granularity", GranularityAllowed) THEN ErrGranularity
    ELSE p

\* The if (caller === 'getTopPageviews') block and what follows it.
CheckTop(p, c) ==
    IF c = "getTopPageviews" THEN
        IF FieldInvalid(p, "year", ReYear) THEN ErrYear
        ELSE IF FieldInvalid(p, "month", ReMonthOnly) THEN ErrMonth
        ELSE IF FieldInvalid(p, "day", ReDayOnly) THEN ErrDay
        ELSE IF LimitInvalid(p) THEN ErrLimit
        ELSE CheckOptional(p)
    ELSE CheckOptional(p)

\* The if / else if on the caller that checks start and end, and what
\* follows it.
CheckRange(p, c) ==
    IF c = "getPerArticlePageviews" THEN
        IF FieldInvalid(p, "start", ReStartDay) THEN ErrStart
        ELSE IF FieldInvalid(p, "end", ReEndDay) THEN ErrEnd
        ELSE CheckTop(p, c)
    ELSE IF c = "getAggregatedPageviews" THEN
        IF FieldInvalid(p, "start", ReStartHour) THEN ErrStart
        ELSE IF FieldInvalid(p, "end", ReEndHour) THEN ErrEnd
        ELSE CheckTop(p, c)
    ELSE CheckTop(p, c)

\* _checkParams(params, caller): an Error, or params itself.
CheckParams(p, c) ==
    IF ~Truthy(p) THEN ErrParamsMissing
    ELSE IF ProjectInvalid(p) THEN ErrProject
    ELSE IF c = "getPerArticlePageviews" /\ ~Truthy(Get(p, "article")) THEN ErrArticle
    ELSE CheckRange(p, c)

---------------------------------------------------------------------------
(* _checkResult *)

\* The HTTP body: a text that JSON.parse either rejects with a SyntaxError
\* or turns into the document doc.
NotJSON == [parses |-> FALSE, doc |-> Undefined]
JSONText(doc) == [parses |-> TRUE, doc |-> doc]

SyntaxErrorText == "SyntaxError: Unexpected token < in JSON at position 0"
TypeErrorText == "TypeError: Cannot read properties of null"

\* The message new Error(v) gets: "" for undefined, else the string form of v.
MessageOf(v) ==
    CASE v.t = "undefined" -> ""
      [] v.t = "str" -> v.s
      [] v.t = "null" -> "null"
      [] v.t = "bool" -> IF v.b THEN "true" ELSE "false"
      [] v.t = "number" -> IF v.n % 10 = 0 THEN ToString(v.n \div 10)
                           ELSE ToString(v.n \div 10) \o "." \o ToString(v.n % 10)
      [] v.t = "obj" -> "[object Object]"

\* NotFoundError reporting the status code whatever the body.
NotFoundErrorStatusOnly(body) == NewError("Error", "Status code 404")

\* The try block of the 404 branch: JSON.parse(body), then
\* new Error(data.detail); any exception e becomes new Error(e).
NotFoundError(body) ==
    IF ~body.parses THEN NewError("Error", SyntaxErrorText)
    ELSE IF Throws(body.doc) THEN NewError("Error", TypeErrorText)
    ELSE NewError("Error", MessageOf(Get(body.doc, "detail")))

\* _checkResult(error, response, body): an Error, or the parsed document.
\* o.error is null when the transport succeeded; o.statusCode is
\* response.statusCode.
CheckResult(o) ==
    IF Truthy(o.error) \/ o.statusCode # 200 THEN
        IF Truthy(o.error) THEN o.error
        ELSE IF o.statusCode = 404 THEN NotFoundError(o.body)
        ELSE NewError("Error", "Status code " \o ToString(o.statusCode))
    ELSE IF ~o.body.parses THEN NewError("Error", SyntaxErrorText)
    ELSE o.body.doc

---------------------------------------------------------------------------
(* The promise and the request *)

Pending == [state |-> "pending", value |-> Undefined]

\* resolve(v) and reject(v): the first call settles the promise, a later
\* call changes nothing.
Resolve(v) ==
    /\ promise' = IF promise.state = "pending"
                  THEN [state |-> "fulfilled", value |-> v] ELSE promise
    /\ settles' = settles + 1

Reject(v) ==
    /\ promise' = IF promise.state = "pending"
                  THEN [state |-> "rejected", value |-> v] ELSE promise
    /\ settles' = settles + 1

\* request(options, callback): one HTTP request for u is now outstanding.
Request(u) ==
    /\ url' = u
    /\ requests' = requests + 1
    /\ pc' = "requesting"

\* params.x ? params.x : dflt
OrDefault(p, x, dflt) == IF Truthy(Get(p, x)) THEN ToStr(Get(p, x)) ELSE dflt

\* encodeURIComponent of one character: the reserved characters of the
\* modelled alphabet; every other character of it is unreserved.
EncodeChar(c) ==
    CASE c = "/" -> <<"%", "2", "F">>
      [] c = " " -> <<"%", "2", "0">>
      [] c = "?" -> <<"%", "3", "F">>
      [] c = "%" -> <<"%", "2", "5">>
      [] OTHER -> <<c>>

RECURSIVE EncodeURIComponent(_)
EncodeURIComponent(s) ==
    IF s = <<>> THEN <<>> ELSE EncodeChar(Head(s)) \o EncodeURIComponent(Tail(s))

\* s.replace(/\s/g, '_')
ReplaceWhitespace(s) == [i \in 1..Len(s) |-> IF s[i] = " " THEN "_" ELSE s[i]]

Slash == <<"/">>

UrlPerArticle(p) ==
    BASE_URL \o PathPerArticle
      \o Slash \o ToStr(Get(p, "project"))
      \o Slash \o OrDefault(p, "access", AccessDefault)
      \o Slash \o OrDefault(p, "agent", AgentDefault)
      \o Slash \o EncodeURIComponent(ReplaceWhitespace(Get(p, "article").s))
      \o Slash \o OrDefault(p, "granularity", GranularityDefault)
      \o Slash \o ToStr(Get(p, "start"))
      \o Slash \o ToStr(Get(p, "end"))

UrlAggregate(p) ==
    BASE_URL \o PathAggregate
      \o Slash \o ToStr(Get(p, "project"))
      \o Slash \o OrDefault(p, "access", AccessDefault)
      \o Slash \o OrDefault(p, "agent", AgentDefault)
      \o Slash \o OrDefault(p, "granularity", GranularityDefault)
      \o Slash \o ToStr(Get(p, "start"))
      \o Slash \o ToStr(Get(p, "end"))

UrlTop(p) ==
    BASE_URL \o PathTop
      \o Slash \o ToStr(Get(p, "project"))
      \o Slash \o OrDefault(p, "access", AccessDefault)
      \o Slash \o ToStr(Get(p, "year"))
      \o Slash \o ToStr(Get(p, "month"))
      \o Slash \o ToStr(Get(p, "day"))

---------------------------------------------------------------------------
(* The inputs: the arguments a caller passes and the outcomes of a request *)

\* The longest article list a response carries.
MaxArticles == 3

U == Undefined

\* A parameter mapping; a field that is undefined is an absent field.
Mapping(pr, ar, st, en, ye, mo, da, li, ac, ag, gr, sk) ==
    Obj([project |-> pr, article |-> ar, start |-> st, end |-> en,
         year |-> ye, month |-> mo, day |-> da, limit |-> li,
         access |-> ac, agent |-> ag, granularity |-> gr, stack |-> sk])

Projects == {U, Str(<<>>), Str(<<"e", "n", "w", "i", "k", "i">>), Str(<<"e", "n", ".", "w", "i", "k", "i", "p", "e", "d", "i", "a">>)}
ProjectOK == Str(<<"e", "n", ".", "w", "i", "k", "i", "p", "e", "d", "i", "a">>)
Articles == {U, Str(<<"M", "a", "i", "n", " ", "P", "a", "g", "e">>), Str(<<"A", "C", "/", "D", "C">>)}
ArticleOK == Str(<<"M", "a", "i", "n", " ", "P", "a", "g", "e">>)
DayOK == Str(<<"2", "0", "2", "4", "0", "1", "1", "5">>)
HourOK == Str(<<"2", "0", "2", "4", "0", "1", "1", "5", "0", "0">>)
Starts == {U, DayOK, HourOK, Str(<<"2", "0", "2", "4", "-", "1", "3", "-", "0", "1">>)}
Ends == {U, Str(<<"2", "0", "2", "4", "0", "1", "1", "6">>), Str(<<"2", "0", "2", "4", "0", "1", "1", "6", "2", "3">>)}
Accesses == {U, Str(<<"d", "e", "s", "k", "t", "o", "p">>), Str(<<"t", "a", "b", "l", "e", "t">>)}
Agents == {U, Str(<<"s", "p", "i", "d", "e", "r">>), Str(<<"h", "u", "m", "a", "n">>)}
Granularities == {U, Str(<<"d", "a", "i", "l", "y">>), Str(<<"h", "o", "u", "r", "l", "y">>)}
Years == {U, Str(<<"2", "0", "2", "4">>), Str(<<"1", "8", "9", "9">>)}
Months == {Str(<<"0", "1">>), Str(<<"1", "3">>)}
Days == {Str(<<"3", "1">>), Str(<<"3", "2">>)}
Limits == {U, Num(0), Num(-10), Num(20), Num(55), Num(10005), Num(20000),
           Str(<<"2">>),
           Str(<<"0">>),
           Str(<<"a", "b", "c">>),
           Str(<<"1", "e", "2">>),
           Str(<<"5", ".", "5">>),
           Str(<<"-", "1">>),
           Str(<<" ", "3">>)}

\* Mappings shaped for the per-article and the aggregated operation.
RangeArguments ==
    {Mapping(p, a, s, e, U, U, U, U, x, g, r, U) :
        p \in Projects, a \in Articles, s \in Starts, e \in Ends,
        x \in Accesses, g \in Agents, r \in Granularities}

\* Mappings shaped for the top operation.
TopArguments ==
    {Mapping(p, U, U, U, y, m, d, l, x, U, U, U) :
        p \in Projects, y \in Years, m \in Months, d \in Days, l \in Limits,
        x \in Accesses}

\* Dates: every year with a valid month and day, and for one year every
\* combination of a separator, a month, a separator, a day and an optional
\* hour, in and out of range.
DateYears == {<<"1", "8", "9", "9">>, <<"1", "9", "0", "0">>, <<"2", "0", "9", "9">>,
              <<"2", "1", "0", "0">>, <<"2", "0", "2">>, <<"2", "0", "2", "4", "0">>}
DateSeps == {<<>>, <<"-">>, <<"/">>, <<".">>, <<" ">>, <<"_">>, <<"-", "-">>}
DateMonths == {<<"0", "0">>, <<"0", "1">>, <<"1", "2">>, <<"1", "3">>}
DateDays == {<<"0", "0">>, <<"0", "1">>, <<"3", "1">>, <<"3", "2">>}
DateHours == {<<>>, <<"2", "3">>}
Dates ==
    {Str(y \o <<"0", "1", "1", "5">>) : y \in DateYears}
    \cup
    {Str(<<"2", "0", "2", "4">> \o a \o m \o b \o d \o h) :
        a \in DateSeps, m \in DateMonths, b \in DateSeps, d \in DateDays,
        h \in DateHours}

\* Valid per-article mappings but for start, or but for end.
DateArguments ==
    {Mapping(ProjectOK, ArticleOK, s, DayOK, U, U, U, U, U, U, U, U) : s \in Dates}
    \cup
    {Mapping(ProjectOK, ArticleOK, DayOK, e, U, U, U, U, U, U, U, U) : e \in Dates}

\* Mappings whose values pass validation and carry a '/' or a stack field.
OddArguments ==
    {Mapping(Str(<<"e", "n", ".", "w", "i", "k", "i", "/", "p", "e", "d", "i", "a">>), ArticleOK, DayOK, DayOK, U, U, U, U, U, U, U, U),
     Mapping(ProjectOK, ArticleOK, Str(<<"2", "0", "2", "4", "/", "0", "1", "/", "1", "5">>), DayOK, U, U, U, U, U, U, U, U),
     Mapping(ProjectOK, U, Str(<<"2", "0", "2", "4", "/", "0", "1", "/", "1", "5", "/", "0", "0">>), HourOK, U, U, U, U, U, U, U, U),
     Mapping(Str(<<"e", "n", ".", "w", "i", "k", "i", "/", "p", "e", "d", "i", "a">>), U, U, U, Str(<<"2", "0", "2", "4">>), Str(<<"0", "1">>), Str(<<"3", "1">>), U, U, U, U, U),
     Mapping(ProjectOK, ArticleOK, DayOK, DayOK, U, U, U, U, U, U, U, Str(<<"x">>)),
     Mapping(U, U, U, U, U, U, U, U, U, U, U, Str(<<"x">>))}

\* What a caller passes: no argument at all, or a mapping.
Arguments == {U} \cup RangeArguments \cup TopArguments \cup DateArguments \cup OddArguments

\* Response documents.
Entry(i) == Obj([article |-> JStr("Article_" \o ToString(i)), rank |-> Num(10 * i)])
ArticleList(k) == Arr([i \in 1..k |-> Entry(i)])
TopDocument(k) ==
    Obj([items |-> Arr(<<Obj([project |-> JStr("en.wikipedia"),
                              articles |-> ArticleList(k)])>>)])
TopDocumentWithStack(k) ==
    Obj([items |-> Arr(<<Obj([project |-> JStr("en.wikipedia"),
                              articles |-> ArticleList(k)])>>),
         stack |-> JStr("overflow")])

Documents ==
    {Null, Num(0), False, JStr("text"), Arr(<<>>), EmptyObject,
     Obj([detail |-> JStr("No data found")]),
     Obj([detail |-> JStr("")]),
     Obj([detail |-> Null]),
     Obj([title |-> JStr("Not found.")]),
     Obj([stack |-> JStr("overflow")]),
     Obj([stack |-> JStr("")]),
     Obj([items |-> Arr(<<>>)]),
     Obj([items |-> Arr(<<EmptyObject>>)]),
     TopDocumentWithStack(MaxArticles)}
    \cup {TopDocument(k) : k \in 0..MaxArticles}

Bodies == {NotJSON} \cup {JSONText(d) : d \in Documents}

TransportError == NewError("Error", "connect ECONNREFUSED")

\* (error, response, body): a transport error without a response, or a
\* response with a status code and a body.
Outcomes ==
    {[error |-> TransportError, statusCode |-> 0, body |-> NotJSON]}
    \cup {[error |-> Null, statusCode |-> s, body |-> b] :
            s \in {200, 404, 500}, b \in Bodies}

---------------------------------------------------------------------------
(* The request callbacks *)

\* The callback ends by an exception that nothing catches: the promise is
\* left as it was.
Throw(text) ==
    /\ uncaught' = JStr(text)
    /\ UNCHANGED <<promise, settles>>

\* if (result.stack) return reject(result); return resolve(result);
\* reading result.stack throws when result is null.
Settle(result) ==
    IF Throws(result) THEN Throw(TypeErrorText)
    ELSE IF Truthy(Get(result, "stack")) THEN Reject(result) /\ UNCHANGED uncaught
    ELSE Resolve(result) /\ UNCHANGED uncaught

\* ToIntegerOrInfinity(ToNumber(v)): NaN is 0, the fraction is dropped.
ToInteger(v) ==
    LET x == ToNumber(v)
    IN  IF x.t = "NaN" THEN 0
        ELSE IF x.n >= 0 THEN x.n \div 10 ELSE 0 - ((0 - x.n) \div 10)

\* Array.prototype.slice(0, end)
Slice(a, end) ==
    LET rel == ToInteger(end)
        final == IF rel < 0 THEN (IF Len(a) + rel < 0 THEN 0 ELSE Len(a) + rel)
                 ELSE (IF rel < Len(a) THEN rel ELSE Len(a))
    IN  SubSeq(a, 1, final)

\* v[0]
First(v) == IF v.t = "arr" /\ Len(v.a) > 0 THEN v.a[1] ELSE Undefined

\* result.items[0].articles = result.items[0].articles.slice(0, limit)
\* can be evaluated: items[0] is an object whose articles is an array (of
\* the documents modelled none holds a string there, which has a slice of
\* its own); otherwise the statement throws a TypeError.
CanTruncate(result) ==
    /\ ~Throws(Get(result, "items"))
    /\ ~Throws(First(Get(result, "items")))
    /\ Get(First(Get(result, "items")), "articles").t = "arr"

Truncated(result, lim) ==
    [result EXCEPT !.f.items.a[1].f.articles.a = Slice(@, lim)]

\* The callback of getPageviewsDimensions, getPerArticlePageviews and
\* getAggregatedPageviews.
Callback(op) ==
    /\ pc = "requesting" /\ caller = op
    /\ \E o \in Outcomes :
          /\ outcome' = o
          /\ Settle(CheckResult(o))
    /\ pc' = "completed"
    /\ UNCHANGED <<argument, params, caller, url, requests, limit>>

DimensionsCallback == Callback("getPageviewsDimensions")
PerArticleCallback == Callback("getPerArticlePageviews")
AggregatedCallback == Callback("getAggregatedPageviews")

TopCallback ==
    /\ pc = "requesting" /\ caller = "getTopPageviews"
    /\ \E o \in Outcomes :
          /\ outcome' = o
          /\ LET result == CheckResult(o)
             IN  IF Throws(result) THEN Throw(TypeErrorText)
                 ELSE IF Truthy(Get(result, "stack"))
                      THEN Reject(result) /\ UNCHANGED uncaught
                 ELSE IF Truthy(limit) THEN
                      IF CanTruncate(result)
                      THEN Resolve(Truncated(result, limit)) /\ UNCHANGED uncaught
                      ELSE Throw(TypeErrorText)
                 ELSE Resolve(result) /\ UNCHANGED uncaught
    /\ pc' = "completed"
    /\ UNCHANGED <<argument, params, caller, url, requests, limit>>

---------------------------------------------------------------------------
(* The four public operations *)

\* return reject(params) out of the promise executor: no request is made.
RejectEarly(err) ==
    /\ Reject(err)
    /\ pc' = "rejected"
    /\ UNCHANGED <<url, requests>>

getPageviewsDimensions ==
    /\ pc = "idle"
    /\ caller' = "getPageviewsDimensions"
    /\ argument' = Undefined
    /\ params' = Undefined
    /\ Request(BASE_URL \o PathDimensions)
    /\ UNCHANGED <<limit, promise, settles, outcome, uncaught>>

getPerArticlePageviews ==
    /\ pc = "idle"
    /\ \E a \in Arguments :
          /\ argument' = a
          /\ params' = CheckParams(a, "getPerArticlePageviews")
          /\ LET p == CheckParams(a, "getPerArticlePageviews")
             IN  IF Truthy(Get(p, "stack")) THEN RejectEarly(p)
                 ELSE Request(UrlPerArticle(p)) /\ UNCHANGED <<promise, settles>>
    /\ caller' = "getPerArticlePageviews"
    /\ UNCHANGED <<limit, outcome, uncaught>>

getAggregatedPageviews ==
    /\ pc = "idle"
    /\ \E a \in Arguments :
          /\ argument' = a
          /\ params' = CheckParams(a, "getAggregatedPageviews")
          /\ LET p == CheckParams(a, "getAggregatedPageviews")
             IN  IF Truthy(Get(p, "stack")) THEN RejectEarly(p)
                 ELSE Request(UrlAggregate(p)) /\ UNCHANGED <<promise, settles>>
    /\ caller' = "getAggregatedPageviews"
    /\ UNCHANGED <<limit, outcome, uncaught>>

getTopPageviews ==
    /\ pc = "idle"
    /\ \E a \in Arguments :
          /\ argument' = a
          /\ params' = CheckParams(a, "getTopPageviews")
          /\ LET p == CheckParams(a, "getTopPageviews")
             IN  IF Truthy(Get(p, "stack"))
                 THEN RejectEarly(p) /\ UNCHANGED limit
                 ELSE /\ limit' = (IF Truthy(Get(p, "limit")) THEN Get(p, "limit")
                                   ELSE False)
                      /\ Request(UrlTop(p))
                      /\ UNCHANGED <<promise, settles>>
    /\ caller' = "getTopPageviews"
    /\ UNCHANGED <<outcome, uncaught>>

---------------------------------------------------------------------------
(* The specification: one call of one operation *)

NoOutcome == [error |-> Null, statusCode |-> 0, body |-> NotJSON]

Init ==
    /\ argument = Undefined
    /\ params = Undefined
    /\ pc = "idle"
    /\ caller = ""
    /\ url = <<>>
    /\ requests = 0
    /\ limit = False
    /\ promise = Pending
    /\ settles = 0
    /\ outcome = NoOutcome
    /\ uncaught = Undefined

Next ==
    \/ getPageviewsDimensions
    \/ getPerArticlePageviews
    \/ getAggregatedPageviews
    \/ getTopPageviews
    \/ DimensionsCallback
    \/ PerArticleCallback
    \/ AggregatedCallback
    \/ TopCallback

Spec == Init /\ [][Next]_vars

---------------------------------------------------------------------------
(* Properties *)

ParameterizedOperations ==
    {"getPerArticlePageviews", "getAggregatedPageviews", "getTopPageviews"}

Called == pc # "idle"
CalledBack == pc = "completed"
Responded == CalledBack /\ ~Truthy(outcome.error)
IsMapping(a) == a.t = "obj"
HasField(d, k) == d.t = "obj" /\ k \in DOMAIN d.f
RejectedWith(message) ==
    /\ promise.state = "rejected"
    /\ promise.value.t = "error"
    /\ promise.value.message = message

\* C1 (as claimed): once the request callback has run, the promise is
\* settled, and resolve or reject has been called exactly once.
C1_SettledExactlyOnce ==
    CalledBack => (promise.state # "pending" /\ settles = 1)

MissingOrDotless(v) ==
    \/ v.t = "undefined"
    \/ v.t = "string" /\ \A i \in 1..Len(v.s) : v.s[i] # "."

\* C2: a mapping whose project is missing or holds no '.' makes each
\* parameterized operation reject with the project validation error, and
\* no request is issued.
C2_ProjectRejected ==
    (/\ Called /\ caller \in ParameterizedOperations
     /\ IsMapping(argument) /\ MissingOrDotless(Get(argument, "project")))
    => /\ pc = "rejected"
       /\ RejectedWith("Required parameter \"project\" missing or invalid.")
       /\ settles = 1
       /\ requests = 0 /\ url = <<>>

C2_Witness ==
    /\ caller = "getTopPageviews" /\ pc = "rejected"
    /\ IsMapping(argument)
    /\ Get(argument, "project") = Str(<<"e", "n", "w", "i", "k", "i">>)
    /\ Get(argument, "year") = Str(<<"1", "8", "9", "9">>)
    /\ Get(argument, "limit") = Num(55)
    /\ promise.value = ErrProject

ArticlesRemoved(d) ==
    IF CanTruncate(d) THEN [d EXCEPT !.f.items.a[1].f.articles.a = <<>>] ELSE d

\* C3 (as claimed): a 200 response whose body parses resolves the call with
\* the parsed document, for getTopPageviews with a limit the same document
\* but for its article list.
C3_ParsedDocumentResolves ==
    (Responded /\ outcome.statusCode = 200 /\ outcome.body.parses)
    => /\ promise.state = "fulfilled"
       /\ IF caller = "getTopPageviews" /\ Get(argument, "limit") # Undefined
          THEN ArticlesRemoved(promise.value) = ArticlesRemoved(outcome.body.doc)
          ELSE promise.value = outcome.body.doc

\* C4 (as claimed): a response whose status is not 200, and that is not a
\* 404 with a parseable body holding a detail field, rejects the call with
\* the message 'Status code <n>'.
C4_StatusCodeError ==
    (/\ Responded /\ outcome.statusCode # 200
     /\ ~(/\ outcome.statusCode = 404 /\ outcome.body.parses
          /\ HasField(outcome.body.doc, "detail")))
    => RejectedWith("Status code " \o ToString(outcome.statusCode))

\* C5: a 404 response whose body parses to a document with a detail field
\* rejects the call, and when the detail is a string the error's message is
\* that string.
C5_NotFoundDetail ==
    (/\ Responded /\ outcome.statusCode = 404 /\ outcome.body.parses
     /\ HasField(outcome.body.doc, "detail"))
    => /\ promise.state = "rejected"
       /\ settles = 1
       /\ promise.value.t = "error"
       /\ outcome.body.doc.f.detail.t = "str"
            => promise.value.message = outcome.body.doc.f.detail.s

C5_Witness ==
    /\ CalledBack /\ caller = "getAggregatedPageviews"
    /\ outcome.statusCode = 404
    /\ outcome.body = JSONText(Obj([detail |-> JStr("No data found")]))
    /\ RejectedWith("No data found")

Min(x, y) == IF x < y THEN x ELSE y
WholeLimit(l) == ToNumber(l).t = "number" /\ ToNumber(l).n % 10 = 0

\* C6 (as claimed): getTopPageviews, given a 200 response whose document
\* has an article list, resolves with the document whose list is its first
\* min(n, length) entries when a limit n is supplied and the whole list
\* when none is; the other operations resolve with the document as it is.
C6_FirstEntries ==
    (/\ Responded /\ outcome.statusCode = 200 /\ outcome.body.parses
     /\ CanTruncate(outcome.body.doc)
     /\ caller = "getTopPageviews" => \/ Get(argument, "limit") = Undefined
                                      \/ WholeLimit(Get(argument, "limit")))
    => /\ promise.state = "fulfilled"
       /\ IF caller = "getTopPageviews" /\ Get(argument, "limit") # Undefined
          THEN promise.value =
                 [outcome.body.doc EXCEPT !.f.items.a[1].f.articles.a =
                    SubSeq(@, 1, Min(ToNumber(Get(argument, "limit")).n \div 10, Len(@)))]
          ELSE promise.value = outcome.body.doc

RuleOrder(a, c) ==
    <<[failed |-> ProjectInvalid(a), error |-> ErrProject],
      [failed |-> c = "getPerArticlePageviews" /\ ~Truthy(Get(a, "article")),
       error |-> ErrArticle],
      [failed |-> \/ c = "getPerArticlePageviews" /\ FieldInvalid(a, "start", ReStartDay)
                  \/ c = "getAggregatedPageviews" /\ FieldInvalid(a, "start", ReStartHour),
       error |-> ErrStart],
      [failed |-> \/ c = "getPerArticlePageviews" /\ FieldInvalid(a, "end", ReEndDay)
                  \/ c = "getAggregatedPageviews" /\ FieldInvalid(a, "end", ReEndHour),
       error |-> ErrEnd],
      [failed |-> c = "getTopPageviews" /\ FieldInvalid(a, "year", ReYear),
       error |-> ErrYear],
      [failed |-> c = "getTopPageviews" /\ FieldInvalid(a, "month", ReMonthOnly),
       error |-> ErrMonth],
      [failed |-> c = "getTopPageviews" /\ FieldInvalid(a, "day", ReDayOnly),
       error |-> ErrDay],
      [failed |-> c = "getTopPageviews" /\ LimitInvalid(a), error |-> ErrLimit],
      [failed |-> OptionInvalid(a, "access", AccessAllowed), error |-> ErrAccess],
      [failed |-> OptionInvalid(a, "agent", AgentAllowed), error |-> ErrAgent],
      [failed |-> OptionInvalid(a, "granularity", GranularityAllowed),
       error |-> ErrGranularity]>>

FirstFailure(rules, a) ==
    IF \E i \in 1..Len(rules) : rules[i].failed
    THEN rules[CHOOSE i \in 1..Len(rules) :
                 rules[i].failed /\ \A j \in 1..(i - 1) : ~rules[j].failed].error
    ELSE a

FailedCount(rules) == Cardinality({i \in 1..Len(rules) : rules[i].failed})

\* C7: the validation result is the error of the first failing rule in the
\* order project, article, start, end, year, month, day, limit, access,
\* agent, granularity, and the mapping itself when no rule fails.
C7_FirstFailingRule ==
    (Called /\ caller \in ParameterizedOperations /\ IsMapping(argument))
    => params = FirstFailure(RuleOrder(argument, caller), argument)

C7_Witness ==
    /\ caller = "getPerArticlePageviews" /\ pc = "rejected"
    /\ IsMapping(argument)
    /\ FailedCount(RuleOrder(argument, caller)) >= 4
    /\ ~ProjectInvalid(argument)
    /\ Get(argument, "article") # Undefined
    /\ Get(argument, "access") = Str(<<"t", "a", "b", "l", "e", "t">>)
    /\ Get(argument, "agent") = Str(<<"h", "u", "m", "a", "n">>)
    /\ params = ErrStart /\ promise.value = ErrStart

RECURSIVE SplitSlash(_)
SplitSlash(s) ==
    IF IndexOf(s, "/") = -1 THEN <<s>>
    ELSE <<SubSeq(s, 1, IndexOf(s, "/"))>>
         \o SplitSlash(SubSeq(s, IndexOf(s, "/") + 2, Len(s)))

Given(a, x, dflt) == IF Get(a, x) = Undefined THEN dflt ELSE Get(a, x).s

Template(c) ==
    CASE c = "getPerArticlePageviews" -> PathPerArticle
      [] c = "getAggregatedPageviews" -> PathAggregate
      [] c = "getTopPageviews" -> PathTop

Placeholders(c, a) ==
    CASE c = "getPerArticlePageviews" ->
            <<Get(a, "project").s, Given(a, "access", AccessDefault),
              Given(a, "agent", AgentDefault),
              EncodeURIComponent(ReplaceWhitespace(Get(a, "article").s)),
              Given(a, "granularity", GranularityDefault),
              Get(a, "start").s, Get(a, "end").s>>
      [] c = "getAggregatedPageviews" ->
            <<Get(a, "project").s, Given(a, "access", AccessDefault),
              Given(a, "agent", AgentDefault),
              Given(a, "granularity", GranularityDefault),
              Get(a, "start").s, Get(a, "end").s>>
      [] c = "getTopPageviews" ->
            <<Get(a, "project").s, Given(a, "access", AccessDefault),
              Get(a, "year").s, Get(a, "month").s, Get(a, "day").s>>

\* C8 (as claimed): the URL of the single request is the base URL, the
\* operation's template and one '/'-separated segment per placeholder, in
\* template order, with absent access, agent and granularity replaced by
\* their defaults.
C8_OneSegmentPerPlaceholder ==
    (/\ Called /\ caller \in ParameterizedOperations
     /\ IsMapping(argument) /\ params = argument /\ requests > 0)
    => LET prefix == BASE_URL \o Template(caller) \o Slash
       IN  /\ requests = 1
           /\ Len(url) >= Len(prefix)
           /\ SubSeq(url, 1, Len(prefix)) = prefix
           /\ SplitSlash(SubSeq(url, Len(prefix) + 1, Len(url)))
                = Placeholders(caller, argument)

InRange(s, lo, hi) == AllDigits(s) /\ DigitsToInt(s) >= lo /\ DigitsToInt(s) <= hi

DateWith(s, a, b) ==
    /\ Len(s) = 8 + Len(a) + Len(b)
    /\ InRange(SubSeq(s, 1, 4), 1900, 2099)
    /\ SubSeq(s, 5, 4 + Len(a)) = a
    /\ InRange(SubSeq(s, 5 + Len(a), 6 + Len(a)), 1, 12)
    /\ SubSeq(s, 7 + Len(a), 6 + Len(a) + Len(b)) = b
    /\ InRange(SubSeq(s, 7 + Len(a) + Len(b), 8 + Len(a) + Len(b)), 1, 31)

UniformDate(v) ==
    /\ v.t = "string"
    /\ \E a \in {<<>>, <<"-">>, <<"/">>, <<".">>} : DateWith(v.s, a, a)

PerArticleDates ==
    /\ Called /\ caller = "getPerArticlePageviews" /\ IsMapping(argument)
    /\ ~MissingOrDotless(Get(argument, "project"))
    /\ Truthy(Get(argument, "article"))

\* C9 (as claimed): with a valid project and article, getPerArticlePageviews
\* accepts start exactly when it is a YYYYMMDD date, year 1900-2099, month
\* 01-12, day 01-31, with no separators or the same separator from '-',
\* '/', '.' in both positions; likewise end.
C9_UniformSeparators ==
    PerArticleDates
    => /\ params = ErrStart <=> ~UniformDate(Get(argument, "start"))
       /\ UniformDate(Get(argument, "start"))
            => (params = ErrEnd <=> ~UniformDate(Get(argument, "end")))

LooseDate(v) ==
    /\ v.t = "string"
    /\ \E a, b \in {<<>>, <<"-">>, <<" ">>, <<"/">>, <<".">>} : DateWith(v.s, a, b)

\* C9 (amended): start is accepted exactly when it is a year 1900-2099, a
\* month 01-12 and a day 01-31, each of the two positions between them
\* holding nothing or one of '-', ' ', '/', '.', chosen independently;
\* likewise end, which is checked once start is accepted.
C9_IndependentSeparators ==
    PerArticleDates
    => /\ params = ErrStart <=> ~LooseDate(Get(argument, "start"))
       /\ LooseDate(Get(argument, "start"))
            => (params = ErrEnd <=> ~LooseDate(Get(argument, "end")))

C9_Witness ==
    /\ PerArticleDates /\ pc = "requesting"
    /\ Get(argument, "start") = Str(<<"2", "0", "2", "4", "-", "0", "1", "/", "3", "1">>)
    /\ params = argument

\* C10 (as claimed): with a valid project, year, month and day, no limit
\* makes getTopPageviews' validation return the limit error.
C10_LimitNeverRejects ==
    (Called /\ caller = "getTopPageviews") => params # ErrLimit

TopRequired ==
    /\ Called /\ caller = "getTopPageviews" /\ IsMapping(argument)
    /\ ~MissingOrDotless(Get(argument, "project"))
    /\ Get(argument, "year") = Str(<<"2", "0", "2", "4">>)
    /\ Get(argument, "month") = Str(<<"0", "1">>)
    /\ Get(argument, "day") = Str(<<"3", "1">>)

RejectedLimits == {Num(55), Str(<<"5", ".", "5">>), Str(<<"1", "e", "2">>), Str(<<" ", "3">>)}

\* C10 (amended): the limit rule rejects exactly the limits that are not
\* written in digits only and whose numeric value is above 0 and at most
\* 1000 (5.5, '5.5', '1e2', ' 3'); digit strings, zero, negative numbers,
\* non-numeric strings and numbers above 1000 are not rejected.
C10_LimitRejectsFractions ==
    TopRequired => (params = ErrLimit <=> Get(argument, "limit") \in RejectedLimits)

C10_Witness ==
    /\ TopRequired /\ pc = "rejected"
    /\ Get(argument, "limit") = Str(<<"1", "e", "2">>)
    /\ promise.value = ErrLimit /\ requests = 0

===========================================================================
